---- MODULE Spec2Model ----
(***************************************************************************)
(* Model of the text classification engine: tokenizeLine / parseText       *)
(* (src/utils/textParser.ts) and the citation rendering of PreviewArea     *)
(* (src/unnamed/part_000).                                                 *)
(*                                                                         *)
(* A string is a sequence of one-character strings; offsets are 0-based,   *)
(* as in the source.  The module is kept in ASCII: the ornate brackets     *)
(* U+FD3F and U+FD3E of the source are written OrnateLeft and OrnateRight, *)
(* any other character outside ASCII is the one-character string named by  *)
(* its code point, as in "U+00A0".                                         *)
(***************************************************************************)
EXTENDS Integers, Sequences, FiniteSets, TLC

\* ------------------------------------------------------------------------
\* Characters and string primitives
\* ------------------------------------------------------------------------

\* U+FD3F, the opening ornate bracket of quranPattern and getBrackets.
OrnateLeft == "<"

\* U+FD3E, the closing ornate bracket of quranPattern and getBrackets.
OrnateRight == ">"

\* The characters \s matches and trim() removes: the WhiteSpace and
\* LineTerminator code points of ECMAScript, that is tab, line feed,
\* vertical tab, form feed, carriage return, space, no-break space, the
\* other space separators (category Zs), the line and paragraph separators
\* and the byte order mark.
WhiteSpace ==
  {"\t", "\n", "U+000B", "\f", "\r", " ", "U+00A0", "U+1680",
   "U+2000", "U+2001", "U+2002", "U+2003", "U+2004", "U+2005", "U+2006",
   "U+2007", "U+2008", "U+2009", "U+200A", "U+2028", "U+2029", "U+202F",
   "U+205F", "U+3000", "U+FEFF"}

\* The value split() stores for a capturing group that took no part in a match.
UNDEFINED == <<"undefined">>

\* The null result of a regular expression match.
NOMATCH == 0 - 1

\* s.charAt(q): the character at offset q, "" outside the string.
CharAt(s, q) == IF q >= 0 /\ q < Len(s) THEN s[q + 1] ELSE ""

\* s.substring(a, b) for 0 <= a <= b <= s.length.
Substring(s, a, b) == SubSeq(s, a + 1, b)

\* s.slice(a, -b) for a, b >= 0: empty when the two ends cross.
Slice(s, a, b) == IF a >= Len(s) - b THEN <<>> ELSE SubSeq(s, a + 1, Len(s) - b)

\* s.startsWith(p)
StartsWith(s, p) == Len(p) <= Len(s) /\ SubSeq(s, 1, Len(p)) = p

\* s.endsWith(p)
EndsWith(s, p) == Len(p) <= Len(s) /\ SubSeq(s, Len(s) - Len(p) + 1, Len(s)) = p

\* s.includes(p): p occurs in s as a substring.
Includes(s, p) == \E a \in 0..(Len(s) - Len(p)) : SubSeq(s, a + 1, a + Len(p)) = p

\* array.includes(x)
ArrayIncludes(arr, x) == \E k \in 1..Len(arr) : arr[k] = x

\* The offset of the first non-whitespace character at or after q.
RECURSIVE SkipSpace(_, _)
SkipSpace(s, q) ==
  IF q < Len(s) /\ s[q + 1] \in WhiteSpace THEN SkipSpace(s, q + 1) ELSE q

\* The offset after the last non-whitespace character before e.
RECURSIVE SkipSpaceBack(_, _)
SkipSpaceBack(s, e) ==
  IF e > 0 /\ s[e] \in WhiteSpace THEN SkipSpaceBack(s, e - 1) ELSE e

\* s.trim(): leading and trailing whitespace removed.
Trim(s) ==
  LET a == SkipSpace(s, 0)
      b == SkipSpaceBack(s, Len(s))
  IN IF a >= b THEN <<>> ELSE Substring(s, a, b)

\* ------------------------------------------------------------------------
\* The regular expressions of tokenizeLine, matched at a given offset
\* ------------------------------------------------------------------------

\* A greedy [^c]+ or [^c]* from q: the offset of the first c at or after q,
\* or the length of s when there is none.
RECURSIVE SkipNot(_, _, _)
SkipNot(s, q, c) ==
  IF q >= Len(s) \/ s[q + 1] = c THEN q ELSE SkipNot(s, q + 1, c)

\* open [^close]+ close, matched at q: the end offset, or NOMATCH.  The
\* negated class cannot cross the closing character, so backtracking never
\* finds another match.
Delimited(s, q, open, close) ==
  IF CharAt(s, q) # open THEN NOMATCH
  ELSE LET j == SkipNot(s, q + 1, close)
       IN IF j > q + 1 /\ CharAt(s, j) = close THEN j + 1 ELSE NOMATCH

\* The quotation alternative (?:\{[^}]+\}|<ornate>) of quranPattern at q.
VerseMatch(s, q) ==
  LET curly == Delimited(s, q, "{", "}")
  IN IF curly # NOMATCH THEN curly ELSE Delimited(s, q, OrnateLeft, OrnateRight)

\* OptionalCitation without the \s*: the reference must follow at once.
OptionalCitation_NoSpace(s, v) ==
  LET r == Delimited(s, v, "[", "]")
  IN IF r # NOMATCH THEN r ELSE v

\* The optional, greedy (?:\s*\[[^\]]+\])? after a quotation ending at v:
\* the end offset with the reference when it matches, v otherwise.
OptionalCitation(s, v) ==
  LET r == Delimited(s, SkipSpace(s, v), "[", "]")
  IN IF r # NOMATCH THEN r ELSE v

\* quranPattern at q: a quotation with its optional reference, or a
\* standalone [reference].
QuranMatch(s, q) ==
  LET v == VerseMatch(s, q)
  IN IF v # NOMATCH THEN OptionalCitation(s, v) ELSE Delimited(s, q, "[", "]")

\* boldPattern \*\*[^\*]+\*\* at q.
BoldMatch(s, q) ==
  IF CharAt(s, q) = "*" /\ CharAt(s, q + 1) = "*"
  THEN LET j == SkipNot(s, q + 2, "*")
       IN IF j > q + 2 /\ CharAt(s, j) = "*" /\ CharAt(s, j + 1) = "*"
          THEN j + 2 ELSE NOMATCH
  ELSE NOMATCH

\* italicPattern \*[^\*]+\*|_[^_]+_ at q.
ItalicMatch(s, q) ==
  LET star == Delimited(s, q, "*", "*")
  IN IF star # NOMATCH THEN star ELSE Delimited(s, q, "_", "_")

\* The characters escapeRegExp puts a backslash before.
RegExpSpecial == {".", "*", "+", "?", "^", "$", "{", "}", "(", ")", "|", "[", "]", "\\"}

\* escapeRegExp: every special character gets a backslash before it.
RECURSIVE escapeRegExp(_)
escapeRegExp(string) ==
  IF string = <<>> THEN <<>>
  ELSE (IF Head(string) \in RegExpSpecial THEN <<"\\", Head(string)>> ELSE <<Head(string)>>)
       \o escapeRegExp(Tail(string))

\* One alternative of the names group, as the regular expression engine reads
\* the escaped name, matched at q: a backslash makes the next character a
\* literal, an unescaped dot matches any character but a line break, any
\* other character matches itself (escapeRegExp leaves no other operator
\* unescaped).  The end offset, or NOMATCH.
RECURSIVE PatternMatch(_, _, _)
PatternMatch(pattern, s, q) ==
  IF pattern = <<>> THEN q
  ELSE IF Head(pattern) = "\\"
       THEN IF Len(pattern) >= 2 /\ CharAt(s, q) = pattern[2]
            THEN PatternMatch(SubSeq(pattern, 3, Len(pattern)), s, q + 1)
            ELSE NOMATCH
       ELSE IF Head(pattern) = "."
            THEN IF q < Len(s) /\ CharAt(s, q) \notin {"\n", "\r", "U+2028", "U+2029"}
                 THEN PatternMatch(Tail(pattern), s, q + 1)
                 ELSE NOMATCH
            ELSE IF CharAt(s, q) = Head(pattern)
                 THEN PatternMatch(Tail(pattern), s, q + 1)
                 ELSE NOMATCH

\* sort((a, b) => b.length - a.length) inserts name after every entry at least
\* as long (the sort is stable).
RECURSIVE InsertByLength(_, _)
InsertByLength(sorted, name) ==
  IF sorted = <<>> THEN <<name>>
  ELSE IF Len(Head(sorted)) >= Len(name)
       THEN <<Head(sorted)>> \o InsertByLength(Tail(sorted), name)
       ELSE <<name>> \o sorted

\* SortedNames without the sort: the names in the order given.
SortedNames_Unsorted(names) == names

\* sortedNames: a copy of customNames, longest first, equal lengths in their
\* original order.
RECURSIVE SortedNames(_)
SortedNames(names) ==
  IF names = <<>> THEN <<>>
  ELSE InsertByLength(SortedNames(SubSeq(names, 1, Len(names) - 1)), names[Len(names)])

\* The names group (name1|name2|...) at q: the alternatives are tried in the
\* order of sortedNames and the first that matches is taken.
RECURSIVE NameMatch(_, _, _)
NameMatch(sortedNames, s, q) ==
  IF sortedNames = <<>> THEN NOMATCH
  ELSE LET e == PatternMatch(escapeRegExp(Head(sortedNames)), s, q)
       IN IF e # NOMATCH THEN e ELSE NameMatch(Tail(sortedNames), s, q)

\* namesRegexPart is the escaped names joined by "|": it is the empty string,
\* and the names group is left out of the pattern, when there is no name or
\* the only name is empty.
HasNamesGroup(sortedNames) ==
  Len(sortedNames) > 1 \/ (Len(sortedNames) = 1 /\ sortedNames[1] # <<>>)

\* The number of capturing groups of masterRegex.
GroupCount(sortedNames) == IF HasNamesGroup(sortedNames) THEN 4 ELSE 3

\* masterRegex with the names group as its first alternative.
MasterExec_NamesFirst(s, q, sortedNames) ==
  LET quran == QuranMatch(s, q)
      bold == BoldMatch(s, q)
      italic == ItalicMatch(s, q)
      name == IF HasNamesGroup(sortedNames) THEN NameMatch(sortedNames, s, q) ELSE NOMATCH
  IN IF name # NOMATCH THEN [group |-> 4, end |-> name]
     ELSE IF quran # NOMATCH THEN [group |-> 1, end |-> quran]
     ELSE IF bold # NOMATCH THEN [group |-> 2, end |-> bold]
     ELSE IF italic # NOMATCH THEN [group |-> 3, end |-> italic]
     ELSE [group |-> 0, end |-> NOMATCH]

\* masterRegex matched at offset q exactly (split runs it sticky): the
\* alternatives in order Quran > Bold > Italic > Names.  group is the
\* capturing group that matched (0: no match), end the offset after it.
MasterExec(s, q, sortedNames) ==
  LET quran == QuranMatch(s, q)
      bold == BoldMatch(s, q)
      italic == ItalicMatch(s, q)
      name == IF HasNamesGroup(sortedNames) THEN NameMatch(sortedNames, s, q) ELSE NOMATCH
  IN IF quran # NOMATCH THEN [group |-> 1, end |-> quran]
     ELSE IF bold # NOMATCH THEN [group |-> 2, end |-> bold]
     ELSE IF italic # NOMATCH THEN [group |-> 3, end |-> italic]
     ELSE IF name # NOMATCH THEN [group |-> 4, end |-> name]
     ELSE [group |-> 0, end |-> NOMATCH]

\* ------------------------------------------------------------------------
\* text.split(masterRegex)
\* ------------------------------------------------------------------------

\* What one successful match appends to the split result after the piece
\* before it: one entry per capturing group, the group that matched holding
\* the matched text, the others UNDEFINED.  start is the offset in the line
\* the entry was taken from.
Captures(s, q, z, sortedNames) ==
  [g \in 1..GroupCount(sortedNames) |->
     [part |-> IF g = z.group THEN Substring(s, q, z.end) ELSE UNDEFINED,
      start |-> q]]

\* The loop of RegExp.prototype[Symbol.split]: p is the end of the last
\* match taken, q the offset tried next.  No match at q, or an empty match
\* ending at p, moves q on by one; a match ending at e appends s[p, q) and
\* the captures, and goes on from p = q = e.  The rest of the string is
\* appended at the end.
RECURSIVE SplitLoop(_, _, _, _, _)
SplitLoop(s, sortedNames, p, q, A) ==
  IF q >= Len(s)
  THEN Append(A, [part |-> Substring(s, p, Len(s)), start |-> p])
  ELSE LET z == MasterExec(s, q, sortedNames)
       IN IF z.group = 0 \/ z.end = p
          THEN SplitLoop(s, sortedNames, p, q + 1, A)
          ELSE SplitLoop(s, sortedNames, z.end, z.end,
                         Append(A, [part |-> Substring(s, p, q), start |-> p])
                           \o Captures(s, q, z, sortedNames))

\* Split that forgets the rest of the string after the last match.
Split_DropTail(s, sortedNames) ==
  LET A == SplitLoop(s, sortedNames, 0, 0, <<>>)
  IN SubSeq(A, 1, Len(A) - 1)

\* parts = text.split(masterRegex), each entry with the offset it came from.
Split(s, sortedNames) == SplitLoop(s, sortedNames, 0, 0, <<>>)

\* ------------------------------------------------------------------------
\* tokenizeLine
\* ------------------------------------------------------------------------

\* The prefix test that looks at the character before the cursor only.
PrefixIsBlank_LastChar(text, currentCursor) ==
  currentCursor = 0 \/ CharAt(text, currentCursor - 1) \in WhiteSpace

\* prefix.trim().length === 0 for prefix = text.substring(0, currentCursor).
PrefixIsBlank(text, currentCursor) ==
  Len(Trim(Substring(text, 0, currentCursor))) = 0

\* NameOrElse that takes every span with a name for a NAME, wherever it is.
NameOrElse_Anywhere(text, currentCursor, namesAtStartOnly, otherwise) == "NAME"

\* NameOrElse that downgrades every span to STANDARD, a bold one too.
NameOrElse_AlwaysStandard(text, currentCursor, namesAtStartOnly, otherwise) ==
  IF namesAtStartOnly
  THEN IF PrefixIsBlank(text, currentCursor) THEN "NAME" ELSE "STANDARD"
  ELSE "NAME"

\* The type given to a span that carries a name, under the positional rule.
NameOrElse(text, currentCursor, namesAtStartOnly, otherwise) ==
  IF namesAtStartOnly
  THEN IF PrefixIsBlank(text, currentCursor) THEN "NAME" ELSE otherwise
  ELSE "NAME"

\* sortedNames.some(name => stripped.includes(name))
ContainsName(sortedNames, stripped) ==
  \E k \in 1..Len(sortedNames) : Includes(stripped, sortedNames[k])

\* ClassifyPart with the name check made before the italic check, on the
\* italic content as well.
ClassifyPart_ItalicName(part, text, customNames, sortedNames, namesAtStartOnly, currentCursor) ==
  IF StartsWith(part, <<"{">>) \/ StartsWith(part, <<OrnateLeft>>) \/ StartsWith(part, <<"[">>)
  THEN [type |-> "QURAN", text |-> part]
  ELSE IF StartsWith(part, <<"*", "*">>) /\ EndsWith(part, <<"*", "*">>) /\ Len(part) > 4
  THEN LET stripped == Slice(part, 2, 2)
       IN [type |-> IF ContainsName(sortedNames, stripped)
                    THEN NameOrElse(text, currentCursor, namesAtStartOnly, "BOLD")
                    ELSE "BOLD",
           text |-> stripped]
  ELSE IF ArrayIncludes(customNames, part) \/ ArrayIncludes(customNames, Slice(part, 1, 1))
  THEN [type |-> NameOrElse(text, currentCursor, namesAtStartOnly, "STANDARD"), text |-> part]
  ELSE IF (StartsWith(part, <<"*">>) /\ EndsWith(part, <<"*">>))
          \/ (StartsWith(part, <<"_">>) /\ EndsWith(part, <<"_">>))
  THEN [type |-> "ITALIC", text |-> Slice(part, 1, 1)]
  ELSE [type |-> "STANDARD", text |-> part]

\* ClassifyPart that leaves the markers on a bold span it does not promote
\* to NAME.
ClassifyPart_DowngradeKeepsMarkers(part, text, customNames, sortedNames, namesAtStartOnly, currentCursor) ==
  IF StartsWith(part, <<"{">>) \/ StartsWith(part, <<OrnateLeft>>) \/ StartsWith(part, <<"[">>)
  THEN [type |-> "QURAN", text |-> part]
  ELSE IF StartsWith(part, <<"*", "*">>) /\ EndsWith(part, <<"*", "*">>) /\ Len(part) > 4
  THEN LET stripped == Slice(part, 2, 2)
           type == IF ContainsName(sortedNames, stripped)
                   THEN NameOrElse(text, currentCursor, namesAtStartOnly, "BOLD")
                   ELSE "BOLD"
       IN [type |-> type,
           text |-> IF type = "BOLD" /\ ContainsName(sortedNames, stripped)
                    THEN part ELSE stripped]
  ELSE IF (StartsWith(part, <<"*">>) /\ EndsWith(part, <<"*">>))
          \/ (StartsWith(part, <<"_">>) /\ EndsWith(part, <<"_">>))
  THEN [type |-> "ITALIC", text |-> Slice(part, 1, 1)]
  ELSE IF ArrayIncludes(customNames, part)
  THEN [type |-> NameOrElse(text, currentCursor, namesAtStartOnly, "STANDARD"), text |-> part]
  ELSE [type |-> "STANDARD", text |-> part]

\* The body of the forEach callback for a part that is not skipped: the
\* chain of checks on the part's own characters, giving type and finalText.
ClassifyPart(part, text, customNames, sortedNames, namesAtStartOnly, currentCursor) ==
  IF StartsWith(part, <<"{">>) \/ StartsWith(part, <<OrnateLeft>>) \/ StartsWith(part, <<"[">>)
  THEN [type |-> "QURAN", text |-> part]
  ELSE IF StartsWith(part, <<"*", "*">>) /\ EndsWith(part, <<"*", "*">>) /\ Len(part) > 4
  THEN LET stripped == Slice(part, 2, 2)
       IN [type |-> IF ContainsName(sortedNames, stripped)
                    THEN NameOrElse(text, currentCursor, namesAtStartOnly, "BOLD")
                    ELSE "BOLD",
           text |-> stripped]
  ELSE IF (StartsWith(part, <<"*">>) /\ EndsWith(part, <<"*">>))
          \/ (StartsWith(part, <<"_">>) /\ EndsWith(part, <<"_">>))
  THEN [type |-> "ITALIC", text |-> Slice(part, 1, 1)]
  ELSE IF ArrayIncludes(customNames, part)
  THEN [type |-> NameOrElse(text, currentCursor, namesAtStartOnly, "STANDARD"), text |-> part]
  ELSE [type |-> "STANDARD", text |-> part]

\* parts.forEach from entry k on (k is 1-based, the callback's index is
\* k - 1).  acc holds the tokens pushed so far, currentCursor, and cursors:
\* the value of currentCursor when each token was made.
RECURSIVE ForEachPart(_, _, _, _, _, _, _, _)
ForEachPart(parts, k, text, customNames, sortedNames, namesAtStartOnly, now, acc) ==
  IF k > Len(parts) THEN acc
  ELSE LET part == parts[k].part
       IN IF part = UNDEFINED \/ part = <<>>
          THEN ForEachPart(parts, k + 1, text, customNames, sortedNames, namesAtStartOnly,
                           now, acc)
          ELSE LET c == ClassifyPart(part, text, customNames, sortedNames,
                                     namesAtStartOnly, acc.currentCursor)
               IN ForEachPart(parts, k + 1, text, customNames, sortedNames, namesAtStartOnly,
                    now,
                    [tokens |-> Append(acc.tokens,
                                  [index |-> k - 1, text |-> c.text, type |-> c.type,
                                   now |-> now[Len(acc.tokens) + 1]]),
                     cursors |-> Append(acc.cursors, acc.currentCursor),
                     currentCursor |-> acc.currentCursor + Len(part)])

\* tokenizeLine(text, customNames, lineIndex, namesAtStartOnly): the tokens,
\* with the locals of the call (parts, the cursor values) kept beside them.
\* now is what Date.now() returns during the call, read after read: the
\* token pushed k-th carries now[k].  The id of a token,
\* `token-${lineIndex}-${index}-${Date.now()}`, is the lineIndex field of the
\* result with the index and now fields of the token.
tokenizeLine(text, customNames, lineIndex, namesAtStartOnly, now) ==
  IF text = <<>>
  THEN [tokens |-> <<>>, parts |-> <<>>, cursors |-> <<>>, currentCursor |-> 0,
        groups |-> 0, lineIndex |-> lineIndex]
  ELSE LET sortedNames == SortedNames(customNames)
           parts == Split(text, sortedNames)
           run == ForEachPart(parts, 1, text, customNames, sortedNames, namesAtStartOnly,
                              now,
                              [tokens |-> <<>>, cursors |-> <<>>, currentCursor |-> 0])
       IN [tokens |-> run.tokens, parts |-> parts, cursors |-> run.cursors,
           currentCursor |-> run.currentCursor, groups |-> GroupCount(sortedNames),
           lineIndex |-> lineIndex]

\* The array after a call that sorts it in place (customNames.sort) when the
\* text is not empty.
NamesAfterCall_SortedInPlace(text, customNames) ==
  IF text = <<>> THEN customNames ELSE SortedNames(customNames)

\* What the caller's customNames array holds after the call: tokenizeLine
\* sorts a copy ([...customNames]), the array itself is left as it was.
NamesAfterCall(text, customNames) == customNames

\* ------------------------------------------------------------------------
\* parseText
\* ------------------------------------------------------------------------

\* The split that leaves the empty pieces out.
RECURSIVE SplitLines_DropEmpty(_, _)
SplitLines_DropEmpty(s, p) ==
  LET j == SkipNot(s, p, "\n")
      piece == IF j > p THEN <<Substring(s, p, j)>> ELSE <<>>
  IN IF j >= Len(s) THEN piece ELSE piece \o SplitLines_DropEmpty(s, j + 1)

\* text.split('\n'): the pieces between line breaks, empty pieces kept.
RECURSIVE SplitLines(_, _)
SplitLines(s, p) ==
  LET j == SkipNot(s, p, "\n")
  IN IF j >= Len(s) THEN <<Substring(s, p, Len(s))>>
     ELSE <<Substring(s, p, j)>> \o SplitLines(s, j + 1)

\* lines.map((line, index) => ...) from line i on: the paragraph's id
\* `p-${index}-${Date.now()}` is kept as the fields index and now.  now is
\* what Date.now() returns from here on, read after read: the first reading
\* goes to the paragraph, the next ones to its tokens, the rest to the lines
\* after it.
RECURSIVE MapLines(_, _, _, _, _)
MapLines(lines, i, customNames, namesAtStartOnly, now) ==
  IF i > Len(lines) THEN <<>>
  ELSE LET result == tokenizeLine(lines[i], customNames, i - 1, namesAtStartOnly, Tail(now))
       IN << [index |-> i - 1, now |-> Head(now), line |-> lines[i]] @@ result >>
            \o MapLines(lines, i + 1, customNames, namesAtStartOnly,
                        SubSeq(now, Len(result.tokens) + 2, Len(now)))

\* parseText(text, customNames, namesAtStartOnly): one paragraph per line.
\* now is what Date.now() returns during the call, read after read.
parseText(text, customNames, namesAtStartOnly, now) ==
  IF text = <<>> THEN <<>>
  ELSE MapLines(SplitLines(text, 0), 1, customNames, namesAtStartOnly, now)

\* The reads of Date.now() numbered from 1 on, as many as a call on text can
\* make: a paragraph takes a line, a token a character of its line at least.
Ordinals(text) == [k \in 1..(Len(text) + 1) |-> k]

\* How often Date.now() was read for the paragraphs parsed: once for each
\* paragraph and once for each token.
RECURSIVE ReadCount(_)
ReadCount(parsed) ==
  IF parsed = <<>> THEN 0
  ELSE 1 + Len(Head(parsed).tokens) + ReadCount(Tail(parsed))

\* The paragraphs parsed, where each id holds the number of its read of
\* Date.now(), with the time now[k] for read k.
AtTimes(parsed, now) ==
  [i \in 1..Len(parsed) |->
     [parsed[i] EXCEPT
        !.now = now[parsed[i].now],
        !.tokens = [k \in 1..Len(parsed[i].tokens) |->
                      [parsed[i].tokens[k] EXCEPT !.now = now[parsed[i].tokens[k].now]]]]]

\* ------------------------------------------------------------------------
\* PreviewArea: the rendering of one token
\* ------------------------------------------------------------------------

\* The values of VerseBracketType, and one value outside it.
BracketStyles == {"curly", "round", "square", "angle", "quranic", "other"}

\* getBrackets with the fallback on the round pair: only "curly" itself
\* gives the curly pair.
getBrackets_RoundDefault(type) ==
  CASE type = "curly" -> <<"{", "}">>
    [] type = "square" -> <<"[", "]">>
    [] type = "angle" -> <<"<<", ">>">>
    [] type = "quranic" -> <<OrnateLeft, OrnateRight>>
    [] OTHER -> <<"(", ")">>

\* getBrackets: the pair of glyphs of a bracket style (the angle quotes
\* U+00AB and U+00BB are written "<<" and ">>").
getBrackets(type) ==
  CASE type = "round" -> <<"(", ")">>
    [] type = "square" -> <<"[", "]">>
    [] type = "angle" -> <<"<<", ">>">>
    [] type = "quranic" -> <<OrnateLeft, OrnateRight>>
    [] OTHER -> <<"{", "}">>

\* token.text.match(/^((?:\{[^}]+\}|<ornate>))(\s*\[[^\]]+\])?$/): whether
\* the whole text matches, and its groups 1 and 2 (group 2 is UNDEFINED when
\* the optional reference took no part).
VerseRegexMatch(t) ==
  LET v == VerseMatch(t, 0)
      r == IF v = NOMATCH THEN NOMATCH ELSE Delimited(t, SkipSpace(t, v), "[", "]")
  IN IF v # NOMATCH /\ r = Len(t)
     THEN [matched |-> TRUE, verse |-> Substring(t, 0, v), citation |-> Substring(t, v, r)]
     ELSE IF v = Len(t)
     THEN [matched |-> TRUE, verse |-> t, citation |-> UNDEFINED]
     ELSE [matched |-> FALSE, verse |-> UNDEFINED, citation |-> UNDEFINED]

\* The standalone test asking for something between the brackets, as the
\* bold test of the tokenizer asks with its length > 4.
IsStandaloneCitation_NotEmpty(t) ==
  StartsWith(t, <<"[">>) /\ EndsWith(t, <<"]">>) /\ Len(t) > 2

\* token.text.startsWith('[') && token.text.endsWith(']')
IsStandaloneCitation(t) == StartsWith(t, <<"[">>) /\ EndsWith(t, <<"]">>)

\* The QURAN branch of the token renderer: a text that starts with "[" and
\* ends with "]" is rendered whole as a citation note; any other text is
\* split into the verse, rendered between the configured brackets, and the
\* citation that may follow it.
RenderQuran(t, verseBrackets) ==
  IF IsStandaloneCitation(t)
  THEN [shape |-> "citation", text |-> t]
  ELSE LET verseMatch == VerseRegexMatch(t)
           verseContentRaw == IF verseMatch.matched THEN verseMatch.verse ELSE t
           citationContent == IF verseMatch.matched /\ verseMatch.citation # UNDEFINED
                              THEN verseMatch.citation ELSE <<>>
           content == IF (StartsWith(verseContentRaw, <<"{">>) /\ EndsWith(verseContentRaw, <<"}">>))
                         \/ (StartsWith(verseContentRaw, <<OrnateLeft>>)
                             /\ EndsWith(verseContentRaw, <<OrnateRight>>))
                      THEN Slice(verseContentRaw, 1, 1)
                      ELSE verseContentRaw
           brackets == getBrackets(verseBrackets)
       IN [shape |-> "verse", matched |-> verseMatch.matched,
           leftBracket |-> brackets[1], content |-> content,
           rightBracket |-> brackets[2], citationContent |-> citationContent]

\* What PreviewArea renders for one token.
RenderToken(token, verseBrackets) ==
  IF token.type = "QURAN" THEN RenderQuran(token.text, verseBrackets)
  ELSE [shape |-> token.type, text |-> token.text]

\* paragraphs.map(paragraph => paragraph.tokens.map(...)): an empty paragraph
\* renders a placeholder, which holds no token.
RenderParagraphs(paragraphs, verseBrackets) ==
  [i \in 1..Len(paragraphs) |->
     [k \in 1..Len(paragraphs[i].tokens) |->
        RenderToken(paragraphs[i].tokens[k], verseBrackets)]]

\* ------------------------------------------------------------------------
\* Inputs
\* ------------------------------------------------------------------------

\* The characters the input text is written with: the curly and square
\* delimiters, the markers, two letters, a space and a form feed.
Chars == {"{", "}", "[", "]", "*", "_", " ", "a", "b", "\f"}

\* Whole spans the input text may also be put together from.
Lexemes ==
  { <<"{", "a", "}">>, <<"[", "b", "]">>, <<OrnateLeft, "a", OrnateRight>>,
    <<"*", "*", "a", "*", "*">> }

\* A text is made of at most MaxFragments fragments.
Fragments == { <<c>> : c \in Chars } \cup Lexemes

\* The number of fragments an input text is made of, at most.
MaxFragments == 3

RECURSIVE TextsOf(_)
TextsOf(n) ==
  IF n = 0 THEN {<<>>}
  ELSE LET shorter == TextsOf(n - 1)
       IN shorter \cup { t \o f : t \in shorter, f \in Fragments }

\* The input texts.
Texts == TextsOf(MaxFragments)

\* The name dictionaries: none, one name, a name and a longer name it begins
\* (given shortest first), a name and a longer name it ends, and names made
\* of marker characters.
Dictionaries ==
  { <<>>,
    << <<"a">> >>,
    << <<"a">>, <<"a", "b">> >>,
    << <<"b">>, <<"a", "b">> >>,
    << <<"*">>, <<"[", "a">> >> }

\* ------------------------------------------------------------------------
\* The application: the inputs, the memoised parse, the preview
\* ------------------------------------------------------------------------

VARIABLES
  inputText,          \* App: inputText
  customNames,        \* App: customNames
  namesAtStartOnly,   \* App: namesAtStartOnly
  verseBrackets,      \* App: styleConfig.verseBrackets
  newNameInput,       \* App: newNameInput
  clock,              \* the times Date.now() may return at a read
  pc,                 \* "input", "parsed", "rendered"
  paragraphs,         \* App: paragraphs = parseText(...)
  rendered            \* what PreviewArea shows for each token

vars ==
  <<inputText, customNames, namesAtStartOnly, verseBrackets, newNameInput, clock, pc,
    paragraphs, rendered>>

\* Nothing is typed in the name field, nothing is parsed or shown yet.
Blank ==
  /\ newNameInput = <<>>
  /\ pc = "input"
  /\ paragraphs = <<>>
  /\ rendered = <<>>

\* Any text, dictionary and positional flag, under the default bracket
\* style of DEFAULT_STYLE, parsed while the clock does not tick.
Init ==
  /\ inputText \in Texts
  /\ customNames \in Dictionaries
  /\ namesAtStartOnly \in BOOLEAN
  /\ verseBrackets = "curly"
  /\ clock = {0}
  /\ Blank

\* useMemo(() => parseText(inputText, customNames, namesAtStartOnly)): each
\* read of Date.now() in the call gives any of the times of the clock.  The
\* call is followed with its reads numbered, which tells how many it makes;
\* parseText only stores what it reads, so that giving read k the time now[k]
\* afterwards is parseText(inputText, customNames, namesAtStartOnly, now).
Parse ==
  /\ pc = "input"
  /\ \E parsed \in {parseText(inputText, customNames, namesAtStartOnly, Ordinals(inputText))} :
       \E now \in [1..ReadCount(parsed) -> clock] : paragraphs' = AtTimes(parsed, now)
  /\ customNames' = NamesAfterCall(inputText, customNames)
  /\ pc' = "parsed"
  /\ UNCHANGED <<inputText, namesAtStartOnly, verseBrackets, newNameInput, clock, rendered>>

\* PreviewArea renders the paragraphs under styleConfig.verseBrackets.
Render ==
  /\ pc = "parsed"
  /\ rendered' = RenderParagraphs(paragraphs, verseBrackets)
  /\ pc' = "rendered"
  /\ UNCHANGED <<inputText, customNames, namesAtStartOnly, verseBrackets, newNameInput,
                 clock, paragraphs>>

Next == Parse \/ Render

Spec == Init /\ [][Next]_vars

\* The fragments of the texts the citation renderer is studied on: the
\* citation delimiters, whitespace and a letter.
CitationFragments ==
  { <<c>> : c \in {"{", "}", "[", "]", OrnateLeft, OrnateRight, " ", "\f", "a"} }
    \cup { <<"{", "a", "}">>, <<"[", "b", "]">>, <<OrnateLeft, "a", OrnateRight>> }

RECURSIVE CitationTextsOf(_)
CitationTextsOf(n) ==
  IF n = 0 THEN {<<>>}
  ELSE LET shorter == CitationTextsOf(n - 1)
       IN shorter \cup { t \o f : t \in shorter, f \in CitationFragments }

\* Any text made of citation fragments, under any bracket style, with the
\* positional flag at its default.
RenderInit ==
  /\ inputText \in CitationTextsOf(MaxFragments)
  /\ customNames \in { <<>>, << <<"*">>, <<"[", "a">> >> }
  /\ namesAtStartOnly = TRUE
  /\ verseBrackets \in BracketStyles
  /\ clock = {0}
  /\ Blank

RenderSpec == RenderInit /\ [][Next]_vars

\* The fragments of the documents the paragraph splitter is studied on.
DocumentFragments ==
  { <<c>> : c \in {"a", " ", "\n"} } \cup { <<"*", "*", "a", "*", "*">> }

RECURSIVE DocumentsOf(_)
DocumentsOf(n) ==
  IF n = 0 THEN {<<>>}
  ELSE LET shorter == DocumentsOf(n - 1)
       IN shorter \cup { t \o f : t \in shorter, f \in DocumentFragments }

\* The latest time the clock may show.
MaxClock == 1

\* The times Date.now() may return.
Clock == 0..MaxClock

\* Any document of several lines, with a dictionary that is not sorted by
\* length, parsed while the clock shows any of its times at each read.
DocumentInit ==
  /\ inputText \in DocumentsOf(MaxFragments)
  /\ customNames = << <<"a">>, <<"a", "b">> >>
  /\ namesAtStartOnly \in BOOLEAN
  /\ verseBrackets = "curly"
  /\ clock = Clock
  /\ Blank

DocumentSpec == DocumentInit /\ [][Next]_vars

\* The fragments of the lines the dictionary is studied on.
NameFragments ==
  { <<c>> : c \in {"a", "b", " ", "\f", "*", "{"} } \cup { <<"*", "*", "a", "*", "*">> }

RECURSIVE NameTextsOf(_)
NameTextsOf(n) ==
  IF n = 0 THEN {<<>>}
  ELSE LET shorter == NameTextsOf(n - 1)
       IN shorter \cup { t \o f : t \in shorter, f \in NameFragments }

\* Any array of strings is a dictionary for parseText: beside the
\* dictionaries above, arrays with an empty entry, with an entry of
\* whitespace and with a repeated entry.
AnyDictionaries ==
  Dictionaries \cup
    { << <<>> >>,
      << <<" ">> >>,
      << <<"a">>, <<>> >>,
      << <<"a">>, <<"a">> >>,
      << <<"a", "b">>, <<"b">>, <<"a">> >> }

\* Any line and any array of names.
NamesInit ==
  /\ inputText \in NameTextsOf(MaxFragments)
  /\ customNames \in AnyDictionaries
  /\ namesAtStartOnly \in BOOLEAN
  /\ verseBrackets = "curly"
  /\ clock = {0}
  /\ Blank

NamesSpec == NamesInit /\ [][Next]_vars

\* The fragments of the lines the scan is studied on: every delimiter and
\* marker, a letter, whitespace and a bold span.
ScanFragments ==
  { <<c>> : c \in {"{", "}", "[", "]", OrnateLeft, OrnateRight, "*", "_", "a", " ", "\f"} }
    \cup { <<"*", "*", "a", "*", "*">> }

RECURSIVE ScanTextsOf(_)
ScanTextsOf(n) ==
  IF n = 0 THEN {<<>>}
  ELSE LET shorter == ScanTextsOf(n - 1)
       IN shorter \cup { t \o f : t \in shorter, f \in ScanFragments }

\* Any line of delimiters, markers and letters, with no name, with a plain
\* name, and with names that are themselves a marker or open a citation.
ScanInit ==
  /\ inputText \in ScanTextsOf(MaxFragments)
  /\ customNames \in { <<>>, << <<"a">> >>, << <<"*">>, <<"[", "a">> >> }
  /\ namesAtStartOnly \in BOOLEAN
  /\ verseBrackets = "curly"
  /\ clock = {0}
  /\ Blank

ScanSpec == ScanInit /\ [][Next]_vars

\* ------------------------------------------------------------------------
\* The application: its state, its handlers and what they make React redo
\* ------------------------------------------------------------------------

\* DEFAULT_NAMES
DEFAULT_NAMES ==
  <<
    <<"U+0627", "U+0644", "U+062F", "U+0643", "U+062A", "U+0648", "U+0631",
      " ", "U+0631", "U+0634", "U+064A", "U+062F">>,
    <<"U+062F", "U+0643", "U+062A", "U+0648", "U+0631", " ", "U+0631",
      "U+0634", "U+064A", "U+062F">>,
    <<"U+062F", ".", " ", "U+0631", "U+0634", "U+064A", "U+062F">>,
    <<"U+0645", "U+0635", "U+0637", "U+0641", "U+0649">>,
    <<"U+0632", "U+0643", "U+0631", "U+064A", "U+0627">>
  >>

\* SAMPLE_TEXT, line after line.
SAMPLE_LINES ==
  <<
    <<"U+0645", "U+0631", "U+062D", "U+0628", "U+0627", "U+064B", " ",
      "U+0628", "U+0643", "U+0645", " ", "U+0641", "U+064A", " ", "U+0627",
      "U+0644", "U+0628", "U+0631", "U+0646", "U+0627", "U+0645", "U+062C",
      " ", "U+0627", "U+0644", "U+0645", "U+0637", "U+0648", "U+0631", ".">>,
    <<"U+0642", "U+0627", "U+0644", " ", "*", "*", "U+0645", "U+0635",
      "U+0637", "U+0641", "U+0649", "*", "*", " ", "U+0644", "U+0635",
      "U+062F", "U+064A", "U+0642", "U+0647", ":", " ", "U+0647", "U+0644",
      " ", "U+0642", "U+0631", "U+0623", "U+062A", " ", "U+0627", "U+0644",
      "U+0622", "U+064A", "U+0629", " ", "{", "U+0627", "U+0644", "U+0644",
      "U+0647", " ", "U+0646", "U+0648", "U+0631", " ", "U+0627", "U+0644",
      "U+0633", "U+0645", "U+0627", "U+0648", "U+0627", "U+062A", " ",
      "U+0648", "U+0627", "U+0644", "U+0623", "U+0631", "U+0636", "}",
      "U+061F">>,
    <<"[", "U+0627", "U+0644", "U+0646", "U+0648", "U+0631", ":", " ", "3",
      "5", "]">>,
    <<>>,
    <<"U+0623", "U+062C", "U+0627", "U+0628", " ", "U+0632", "U+0643",
      "U+0631", "U+064A", "U+0627", " ", ":", " ", "U+0646", "U+0639",
      "U+0645", "U+060C", " ", "U+0648", "U+0642", "U+062F", " ", "U+0634",
      "U+0631", "U+062D", "U+0647", "U+0627", " ", "*", "*", "U+062F", ".",
      " ", "U+0631", "U+0634", "U+064A", "U+062F", ":", "*", "*", " ",
      "U+0641", "U+064A", " ", "U+0627", "U+0644", "U+0645", "U+062D",
      "U+0627", "U+0636", "U+0631", "U+0629", " ", "U+0627", "U+0644",
      "U+0633", "U+0627", "U+0628", "U+0642", "U+0629", ".">>,
    <<"*", "U+0645", "U+0644", "U+0627", "U+062D", "U+0638", "U+0629", ":",
      " ", "U+0647", "U+0630", "U+0627", " ", "U+0627", "U+0644", "U+0646",
      "U+0635", " ", "U+064A", "U+062F", "U+0639", "U+0645", " ", "U+0627",
      "U+0644", "U+0645", "U+0627", "U+0631", "U+0643", "U+062F", "U+0648",
      "U+0646", " ", "U+0627", "U+0644", "U+0622", "U+0646", ".", "*">>,
    <<>>,
    <<"U+062B", "U+0645", " ", "U+0639", "U+0644", "U+0642", " ", "U+0627",
      "U+0644", "U+062F", "U+0643", "U+062A", "U+0648", "U+0631", " ",
      "U+0631", "U+0634", "U+064A", "U+062F", " ", "U+0642", "U+0627",
      "U+0626", "U+0644", "U+0627", "U+064B", ":", " ", "U+0625", "U+0646",
      "U+0647", "U+0627", " ", "U+0622", "U+064A", "U+0629", " ", "U+0639",
      "U+0638", "U+064A", "U+0645", "U+0629", ".">>
  >>

\* The lines joined by line feeds.
RECURSIVE JoinLines(_)
JoinLines(lines) ==
  IF Len(lines) = 1 THEN lines[1]
  ELSE lines[1] \o <<"\n">> \o JoinLines(Tail(lines))

SAMPLE_TEXT == JoinLines(SAMPLE_LINES)

\* The state of App when it is mounted (the useState initial values), while
\* the clock does not tick.
AppInit ==
  /\ inputText = SAMPLE_TEXT
  /\ customNames = DEFAULT_NAMES
  /\ namesAtStartOnly = TRUE
  /\ verseBrackets = "curly"
  /\ clock = {0}
  /\ Blank

\* What the user may put in the text area: nothing, brackets around
\* nothing, a quotation with its reference, two lines.
AppTexts ==
  { <<>>, <<"[", "]">>, <<"{", "a", "}", "\f", "[", "b", "]">>, <<"b", "a", "\n", "a">> }

\* What the user may type in the name field.
TypedNames == { <<" ">>, <<" ", "a">>, <<"a", "b">> }

\* The names whose remove button the user may press.
Removable == { DEFAULT_NAMES[4], <<"a">> }

\* The ids of the bracket buttons.
BracketButtons == {"curly", "quranic", "round", "angle"}

\* The handlers run between two renders.  A handler that gives a state of
\* the dependency list of useMemo (inputText, customNames, namesAtStartOnly)
\* a new value makes the next render parse again; one that changes any other
\* state makes it show the paragraphs it has again.

\* setInputText(e.target.value) of the text area, setInputText('') of the
\* eraser button.  Setting the value the state has already changes nothing.
setInputText(value) ==
  /\ pc = "rendered"
  /\ inputText' = value
  /\ pc' = IF value = inputText THEN "rendered" ELSE "input"
  /\ UNCHANGED <<customNames, namesAtStartOnly, verseBrackets, newNameInput, clock,
                 paragraphs, rendered>>

\* setNewNameInput(e.target.value) of the name field.
setNewNameInput(value) ==
  /\ pc = "rendered"
  /\ newNameInput' = value
  /\ pc' = IF value = newNameInput THEN "rendered" ELSE "parsed"
  /\ UNCHANGED <<inputText, customNames, namesAtStartOnly, verseBrackets, clock,
                 paragraphs, rendered>>

\* handleAddName
handleAddName ==
  /\ pc = "rendered"
  /\ IF Trim(newNameInput) # <<>> /\ ~ArrayIncludes(customNames, Trim(newNameInput))
     THEN /\ customNames' = Append(customNames, Trim(newNameInput))
          /\ newNameInput' = <<>>
          /\ pc' = "input"
     ELSE UNCHANGED <<customNames, newNameInput, pc>>
  /\ UNCHANGED <<inputText, namesAtStartOnly, verseBrackets, clock, paragraphs, rendered>>

\* removeName(nameToRemove), from the button beside a name of the list.
removeName(nameToRemove) ==
  /\ pc = "rendered"
  /\ ArrayIncludes(customNames, nameToRemove)
  /\ customNames' = SelectSeq(customNames, LAMBDA n : n # nameToRemove)
  /\ pc' = "input"
  /\ UNCHANGED <<inputText, namesAtStartOnly, verseBrackets, newNameInput, clock,
                 paragraphs, rendered>>

\* handleResetDefaults.  When the names and the flag have their default
\* values already, whether React sees a change lies in what is not kept
\* here: the identity of the array of names, and the style object with its
\* other fields.  Each outcome may follow.
handleResetDefaults ==
  /\ pc = "rendered"
  /\ verseBrackets' = "curly"
  /\ customNames' = DEFAULT_NAMES
  /\ namesAtStartOnly' = TRUE
  /\ pc' \in IF customNames # DEFAULT_NAMES \/ ~namesAtStartOnly THEN {"input"}
             ELSE IF verseBrackets # "curly" THEN {"input", "parsed"}
             ELSE {"input", "parsed", "rendered"}
  /\ UNCHANGED <<inputText, newNameInput, clock, paragraphs, rendered>>

\* setNamesAtStartOnly(!namesAtStartOnly) of the checkbox.
setNamesAtStartOnly ==
  /\ pc = "rendered"
  /\ namesAtStartOnly' = ~namesAtStartOnly
  /\ pc' = "input"
  /\ UNCHANGED <<inputText, customNames, verseBrackets, newNameInput, clock,
                 paragraphs, rendered>>

\* setStyleConfig({...styleConfig, verseBrackets: b.id}) of a bracket
\* button; with the style the state has already, any setStyleConfig of
\* another field.  The new style object makes React render again.
setStyleConfig(id) ==
  /\ pc = "rendered"
  /\ verseBrackets' = id
  /\ pc' = "parsed"
  /\ UNCHANGED <<inputText, customNames, namesAtStartOnly, newNameInput, clock,
                 paragraphs, rendered>>

AppNext ==
  \/ Parse
  \/ Render
  \/ \E value \in AppTexts : setInputText(value)
  \/ \E value \in TypedNames : setNewNameInput(value)
  \/ handleAddName
  \/ \E nameToRemove \in Removable : removeName(nameToRemove)
  \/ handleResetDefaults
  \/ setNamesAtStartOnly
  \/ \E id \in BracketButtons : setStyleConfig(id)

AppSpec == AppInit /\ [][AppNext]_vars

\* ------------------------------------------------------------------------
\* Vocabulary of the properties
\* ------------------------------------------------------------------------

\* The paragraphs, as indexes.
ParagraphIds == 1..Len(paragraphs)

\* The tokens of paragraph P, as indexes.
TokenIds(P) == 1..Len(P.tokens)

\* The entry of parts a token was made from.
PartOf(P, token) == P.parts[token.index + 1]

\* The capturing group a token's part belongs to: 0 for a piece between
\* matches, 1 to 4 for the Quran, bold, italic and names groups.
GroupOf(P, token) == token.index % (P.groups + 1)

\* The parts that are turned into tokens, concatenated in order.
RECURSIVE JoinTaken(_)
JoinTaken(parts) ==
  IF parts = <<>> THEN <<>>
  ELSE (IF Head(parts).part = UNDEFINED THEN <<>> ELSE Head(parts).part)
       \o JoinTaken(Tail(parts))

\* Every character of s before offset e is whitespace.
BlankBefore(s, e) == \A a \in 1..e : s[a] \in WhiteSpace

\* Name n occurs in s at offset q.
OccursAt(n, s, q) == q + Len(n) <= Len(s) /\ SubSeq(s, q + 1, q + Len(n)) = n

\* Some entry of the dictionary occurs in s as a substring.
HoldsName(names, s) ==
  \E k \in 1..Len(names) : \E q \in 0..Len(s) : OccursAt(names[k], s, q)

\* t[a..b] (1-based, inclusive) opens with open, closes with close, and holds
\* at least one character between them, none of them close.
Wrapped(t, a, b, open, close) ==
  /\ 1 <= a /\ a + 2 <= b /\ b <= Len(t)
  /\ t[a] = open /\ t[b] = close
  /\ \A c \in (a + 1)..(b - 1) : t[c] # close

\* t[1..v] is a quotation in curly or ornate brackets.
Quotation(t, v) ==
  Wrapped(t, 1, v, "{", "}") \/ Wrapped(t, 1, v, OrnateLeft, OrnateRight)

\* t is a quotation t[1..v], whitespace t[v+1..w], and a bracketed reference
\* t[w+1..Len(t)].
QuotationAndReference(t, v, w) ==
  /\ Quotation(t, v)
  /\ v <= w
  /\ \A c \in (v + 1)..w : t[c] \in WhiteSpace
  /\ Wrapped(t, w + 1, Len(t), "[", "]")

\* t is a standalone bracketed reference.
StandaloneReference(t) == Wrapped(t, 1, Len(t), "[", "]")

\* t matches the citation grammar from its first to its last character.
CitationGrammar(t) ==
  \/ StandaloneReference(t)
  \/ Quotation(t, Len(t))
  \/ \E v \in 1..Len(t) : \E w \in v..Len(t) : QuotationAndReference(t, v, w)

\* In s, whitespace (possibly none) and a bracketed reference follow offset e.
ReferenceFollows(s, e) ==
  \E w \in e..Len(s) : \E b \in (w + 1)..Len(s) :
     /\ \A c \in (e + 1)..w : s[c] \in WhiteSpace
     /\ Wrapped(s, w + 1, b, "[", "]")

\* ------------------------------------------------------------------------
\* C1
\* ------------------------------------------------------------------------

\* C1: the parts turned into tokens, concatenated in order, are the input
\* line; currentCursor is the start offset of each part when the part is
\* processed, and the length of the line after the last part.
C1_Coverage ==
  \A i \in ParagraphIds :
    LET P == paragraphs[i]
    IN /\ JoinTaken(P.parts) = P.line
       /\ P.currentCursor = Len(P.line)
       /\ Len(P.cursors) = Len(P.tokens)
       /\ \A k \in TokenIds(P) :
            LET part == PartOf(P, P.tokens[k])
            IN /\ P.cursors[k] = part.start
               /\ Substring(P.line, part.start, part.start + Len(part.part)) = part.part

\* C1 witness: a line cut into three tokens or more, one of them stripped of
\* its markers, the last one starting past the middle of the line.
C1_Witness ==
  \E i \in ParagraphIds :
    LET P == paragraphs[i]
    IN /\ Len(P.tokens) >= 3
       /\ \E k \in TokenIds(P) : P.tokens[k].text # PartOf(P, P.tokens[k]).part
       /\ P.cursors[Len(P.tokens)] * 2 > Len(P.line)

\* ------------------------------------------------------------------------
\* C2
\* ------------------------------------------------------------------------

\* C2: no token has a zero-length text, also on lines with unpaired marker
\* characters.
C2_NoEmptyToken ==
  \A i \in ParagraphIds :
    \A k \in TokenIds(paragraphs[i]) : paragraphs[i].tokens[k].text # <<>>

\* ------------------------------------------------------------------------
\* C3
\* ------------------------------------------------------------------------

\* C3: text that matches none of the four patterns (a piece between
\* matches) is emitted STANDARD with its characters unchanged.
C3_UnmatchedIsStandard ==
  \A i \in ParagraphIds :
    LET P == paragraphs[i]
    IN \A k \in TokenIds(P) :
         GroupOf(P, P.tokens[k]) = 0
           => /\ P.tokens[k].type = "STANDARD"
              /\ P.tokens[k].text = PartOf(P, P.tokens[k]).part

\* ------------------------------------------------------------------------
\* C4
\* ------------------------------------------------------------------------

\* C4: the text of every QURAN token matches the citation grammar in full,
\* and no QURAN token reaches the renderer's fallback (verseMatch null on a
\* text that is not rendered as a standalone reference).
C4_QuranMatchesGrammar ==
  \A i \in ParagraphIds :
    LET P == paragraphs[i]
    IN \A k \in TokenIds(P) :
         P.tokens[k].type = "QURAN"
           => /\ CitationGrammar(P.tokens[k].text)
              /\ (pc = "rendered" /\ rendered[i][k].shape = "verse")
                   => rendered[i][k].matched

\* ------------------------------------------------------------------------
\* C5
\* ------------------------------------------------------------------------

\* C5: a token made from a match of the names group at offset q holds a
\* dictionary entry, and no entry that occurs in the line at q is longer.
C5_LongestName ==
  \A i \in ParagraphIds :
    LET P == paragraphs[i]
    IN \A k \in TokenIds(P) :
         GroupOf(P, P.tokens[k]) = 4
           => LET part == PartOf(P, P.tokens[k])
              IN /\ ArrayIncludes(customNames, part.part)
                 /\ OccursAt(part.part, P.line, part.start)
                 /\ \A n \in 1..Len(customNames) :
                      OccursAt(customNames[n], P.line, part.start)
                        => Len(customNames[n]) <= Len(part.part)

\* C5 witness: a names match at an offset where a shorter entry, given before
\* it in the dictionary, occurs as well.
C5_Witness ==
  \E i \in ParagraphIds :
    LET P == paragraphs[i]
    IN \E k \in TokenIds(P) :
         /\ GroupOf(P, P.tokens[k]) = 4
         /\ \E n \in 1..Len(customNames) :
              /\ OccursAt(customNames[n], P.line, PartOf(P, P.tokens[k]).start)
              /\ Len(customNames[n]) < Len(PartOf(P, P.tokens[k]).part)
              /\ \E m \in (n + 1)..Len(customNames) :
                   customNames[m] = PartOf(P, P.tokens[k]).part

\* ------------------------------------------------------------------------
\* C6
\* ------------------------------------------------------------------------

\* C6: a token made from a match of the names group keeps the name as its
\* text; it is typed NAME when namesAtStartOnly is false or the line before
\* the match is whitespace only, and STANDARD otherwise.
C6_BareNamePolicy ==
  \A i \in ParagraphIds :
    LET P == paragraphs[i]
    IN \A k \in TokenIds(P) :
         GroupOf(P, P.tokens[k]) = 4
           => /\ P.tokens[k].text = PartOf(P, P.tokens[k]).part
              /\ P.tokens[k].type =
                   IF ~namesAtStartOnly \/ BlankBefore(P.line, PartOf(P, P.tokens[k]).start)
                   THEN "NAME" ELSE "STANDARD"

\* ------------------------------------------------------------------------
\* C7
\* ------------------------------------------------------------------------

\* C7: a token made from a match of the bold pattern has the span without
\* its two leading and two trailing asterisks as text; it is typed BOLD when
\* the content holds no dictionary entry, and otherwise NAME when
\* namesAtStartOnly is false or the line before the span is whitespace only,
\* and BOLD when namesAtStartOnly is true and the line before the span holds
\* a character that is not whitespace.
C7_BoldNamePromotion ==
  \A i \in ParagraphIds :
    LET P == paragraphs[i]
    IN \A k \in TokenIds(P) :
         GroupOf(P, P.tokens[k]) = 2
           => LET part == PartOf(P, P.tokens[k])
                  content == SubSeq(part.part, 3, Len(part.part) - 2)
              IN /\ P.tokens[k].text = content
                 /\ Len(content) = Len(part.part) - 4
                 /\ P.tokens[k].type =
                      IF ~HoldsName(customNames, content) THEN "BOLD"
                      ELSE IF ~namesAtStartOnly THEN "NAME"
                      ELSE IF BlankBefore(P.line, part.start) THEN "NAME"
                      ELSE "BOLD"

\* C7 witness: with namesAtStartOnly true, a bold span that holds a name
\* after a character that is not whitespace.
C7_Witness ==
  \E i \in ParagraphIds :
    LET P == paragraphs[i]
    IN \E k \in TokenIds(P) :
         /\ GroupOf(P, P.tokens[k]) = 2
         /\ namesAtStartOnly
         /\ HoldsName(customNames, P.tokens[k].text)
         /\ ~BlankBefore(P.line, PartOf(P, P.tokens[k]).start)

\* ------------------------------------------------------------------------
\* C8
\* ------------------------------------------------------------------------

\* C8: a token made from a match of the italic pattern is typed ITALIC and
\* has the span without its first and last character as text, whatever
\* namesAtStartOnly is and whether or not the content holds a name.
C8_ItalicUnconditional ==
  \A i \in ParagraphIds :
    LET P == paragraphs[i]
    IN \A k \in TokenIds(P) :
         GroupOf(P, P.tokens[k]) = 3
           => LET part == PartOf(P, P.tokens[k])
              IN /\ P.tokens[k].type = "ITALIC"
                 /\ P.tokens[k].text = SubSeq(part.part, 2, Len(part.part) - 1)
                 /\ Len(P.tokens[k].text) = Len(part.part) - 2
                 /\ \/ Wrapped(part.part, 1, Len(part.part), "*", "*")
                    \/ Wrapped(part.part, 1, Len(part.part), "_", "_")

\* C8 witness: an italic span at the start of the line whose content is a
\* dictionary entry.
C8_Witness ==
  \E i \in ParagraphIds :
    LET P == paragraphs[i]
    IN \E k \in TokenIds(P) :
         /\ GroupOf(P, P.tokens[k]) = 3
         /\ ArrayIncludes(customNames, P.tokens[k].text)
         /\ PartOf(P, P.tokens[k]).start = 0

\* ------------------------------------------------------------------------
\* C9
\* ------------------------------------------------------------------------

\* C9: every match of the Quran pattern becomes exactly one token, typed
\* QURAN, whose text is the matched span of the line character for
\* character; the span matches the citation grammar, and a quotation that
\* whitespace and a bracketed reference follow is matched together with
\* them (the span never stops at the quotation).
C9_CitationKeptWhole ==
  \A i \in ParagraphIds :
    LET P == paragraphs[i]
    IN \A j \in 1..Len(P.parts) :
         ((j - 1) % (P.groups + 1) = 1 /\ P.parts[j].part # UNDEFINED)
           => LET span == P.parts[j].part
                  from == P.parts[j].start
              IN /\ Cardinality({k \in TokenIds(P) : P.tokens[k].index = j - 1}) = 1
                 /\ \A k \in TokenIds(P) :
                      P.tokens[k].index = j - 1
                        => /\ P.tokens[k].type = "QURAN"
                           /\ P.tokens[k].text = span
                 /\ OccursAt(span, P.line, from)
                 /\ CitationGrammar(span)
                 /\ Quotation(span, Len(span)) => ~ReferenceFollows(P.line, from + Len(span))

\* C9 witness: a QURAN token that holds a quotation, whitespace and a
\* bracketed reference.
C9_Witness ==
  \E i \in ParagraphIds :
    LET P == paragraphs[i]
    IN \E k \in TokenIds(P) :
         /\ GroupOf(P, P.tokens[k]) = 1
         /\ P.tokens[k].type = "QURAN"
         /\ \E v \in 1..Len(P.tokens[k].text) : \E w \in (v + 1)..Len(P.tokens[k].text) :
              QuotationAndReference(P.tokens[k].text, v, w)

\* ------------------------------------------------------------------------
\* C10
\* ------------------------------------------------------------------------

\* C10: for a QURAN token that is a quotation, whitespace and a bracketed
\* reference, the quoted content is the text between the quotation's
\* delimiters and the reference is the bracketed suffix itself, from "[" to
\* "]", without the whitespace around it; a token that is a quotation alone
\* has an empty reference.  The renderer's group 2, (\s*\[[^\]]+\]), takes
\* the whitespace into the reference.
C10_ReferenceWithoutWhitespace ==
  pc = "rendered" =>
    \A i \in ParagraphIds :
      LET P == paragraphs[i]
      IN \A k \in TokenIds(P) :
           LET t == P.tokens[k].text
           IN P.tokens[k].type = "QURAN"
                => /\ \A v \in 1..Len(t) : \A w \in (v + 1)..Len(t) :
                        QuotationAndReference(t, v, w)
                          => /\ rendered[i][k].shape = "verse"
                             /\ rendered[i][k].content = SubSeq(t, 2, v - 1)
                             /\ rendered[i][k].citationContent = SubSeq(t, w + 1, Len(t))
                   /\ Quotation(t, Len(t))
                        => /\ rendered[i][k].shape = "verse"
                           /\ rendered[i][k].citationContent = <<>>

\* ------------------------------------------------------------------------
\* C11
\* ------------------------------------------------------------------------

\* C11: a QURAN token whose text starts with "[" and ends with "]" is
\* rendered as a reference alone, which is the whole token text unchanged:
\* no quoted content, no delimiters, and nothing that depends on the
\* configured bracket style.
C11_StandaloneReference ==
  pc = "rendered" =>
    \A i \in ParagraphIds :
      LET P == paragraphs[i]
      IN \A k \in TokenIds(P) :
           LET t == P.tokens[k].text
           IN (/\ P.tokens[k].type = "QURAN"
               /\ Len(t) >= 1
               /\ t[1] = "["
               /\ t[Len(t)] = "]")
                => rendered[i][k] = [shape |-> "citation", text |-> t]

\* C11 witness: a standalone reference rendered under a style other than the
\* default one.
C11_Witness ==
  /\ pc = "rendered"
  /\ verseBrackets = "round"
  /\ \E i \in ParagraphIds :
       LET P == paragraphs[i]
       IN \E k \in TokenIds(P) :
            /\ P.tokens[k].type = "QURAN"
            /\ StandaloneReference(P.tokens[k].text)
            /\ rendered[i][k].shape = "citation"

\* ------------------------------------------------------------------------
\* C12
\* ------------------------------------------------------------------------

\* The delimiter pair the styles are claimed to stand for.
StylePair(style) ==
  IF style = "round" THEN <<"(", ")">>
  ELSE IF style = "square" THEN <<"[", "]">>
  ELSE IF style = "angle" THEN <<"<<", ">>">>
  ELSE IF style = "quranic" THEN <<OrnateLeft, OrnateRight>>
  ELSE <<"{", "}">>

\* C12: getBrackets gives each style its pair and any other value the curly
\* pair, and the pair rendered around a quoted content is the pair of the
\* configured style whatever glyphs wrapped the quotation in the text.
C12_BracketStyle ==
  /\ \A style \in BracketStyles : getBrackets(style) = StylePair(style)
  /\ pc = "rendered" =>
       \A i \in ParagraphIds : \A k \in TokenIds(paragraphs[i]) :
          rendered[i][k].shape = "verse"
            => /\ rendered[i][k].leftBracket = StylePair(verseBrackets)[1]
               /\ rendered[i][k].rightBracket = StylePair(verseBrackets)[2]

\* C12 witness: a quotation wrapped in ornate brackets in the text, rendered
\* under a value that is not a style.
C12_Witness ==
  /\ pc = "rendered"
  /\ verseBrackets = "other"
  /\ \E i \in ParagraphIds :
       LET P == paragraphs[i]
       IN \E k \in TokenIds(P) :
            /\ P.tokens[k].type = "QURAN"
            /\ Quotation(P.tokens[k].text, Len(P.tokens[k].text))
            /\ P.tokens[k].text[1] = OrnateLeft
            /\ rendered[i][k].shape = "verse"
            /\ rendered[i][k].leftBracket = "{"

\* ------------------------------------------------------------------------
\* C13
\* ------------------------------------------------------------------------

\* C13: a QURAN token that is neither a standalone reference nor a quotation
\* with an optional reference is rendered whole as the quoted content,
\* character for character, with no reference.
C13_FallbackKeepsText ==
  pc = "rendered" =>
    \A i \in ParagraphIds :
      LET P == paragraphs[i]
      IN \A k \in TokenIds(P) :
           LET t == P.tokens[k].text
           IN (/\ P.tokens[k].type = "QURAN"
               /\ ~(Len(t) >= 1 /\ t[1] = "[" /\ t[Len(t)] = "]")
               /\ ~Quotation(t, Len(t))
               /\ ~(\E v \in 1..Len(t) : \E w \in v..Len(t) : QuotationAndReference(t, v, w)))
                => /\ rendered[i][k].shape = "verse"
                   /\ rendered[i][k].content = t
                   /\ rendered[i][k].citationContent = <<>>

\* ------------------------------------------------------------------------
\* C14
\* ------------------------------------------------------------------------

\* The positions (1-based) of the line breaks of s.
LineBreaks(s) == { p \in 1..Len(s) : s[p] = "\n" }

\* The position of the n-th line break of s; 0 for n = 0 and Len(s) + 1 when
\* s has fewer than n line breaks.
BreakAt(s, n) ==
  IF n = 0 THEN 0
  ELSE IF n > Cardinality(LineBreaks(s)) THEN Len(s) + 1
  ELSE CHOOSE p \in LineBreaks(s) : Cardinality({ q \in LineBreaks(s) : q <= p }) = n

\* The i-th line of s: what lies between line breaks i - 1 and i.
Line(s, i) == SubSeq(s, BreakAt(s, i - 1) + 1, BreakAt(s, i) - 1)

\* The (type, text) sequence of a sequence of tokens.
Kinds(tokens) == [k \in 1..Len(tokens) |-> <<tokens[k].type, tokens[k].text>>]

\* Readings of a clock that stands at time 0, as many as a call on the line
\* s can make.
Still(s) == [k \in 1..Len(s) |-> 0]

\* Each of the paragraphs holds what its line gives when tokenized alone,
\* while the clock stands.
AsLineAlone(parsed) ==
  \A i \in 1..Len(parsed) :
     Kinds(parsed[i].tokens)
       = Kinds(tokenizeLine(Line(inputText, i), customNames, 0, namesAtStartOnly,
                            Still(Line(inputText, i))).tokens)

\* C14: whatever times the ids of a parse carry, the (type, text) sequence
\* of a paragraph is that of its line tokenized alone, with line index 0 and
\* a clock that stands, and the parse leaves the caller's array of names as
\* it was, in content and order.  The step that parses is the one from
\* "input" to "parsed".
C14_Purity ==
  [][(pc = "input" /\ pc' = "parsed")
       => (customNames' = customNames /\ AsLineAlone(paragraphs'))]_vars

\* C14 witness: a document parsed with a dictionary that is not sorted by
\* length, whose second line holds a name in a token that carries another
\* time than its paragraph.
C14_Witness ==
  /\ pc = "parsed"
  /\ customNames = << <<"a">>, <<"a", "b">> >>
  /\ Len(paragraphs) >= 2
  /\ paragraphs[2].lineIndex = 1
  /\ \E k \in TokenIds(paragraphs[2]) :
       /\ paragraphs[2].tokens[k].type = "NAME"
       /\ paragraphs[2].tokens[k].now # paragraphs[2].now

\* ------------------------------------------------------------------------
\* C15
\* ------------------------------------------------------------------------

\* The times the tokens of paragraph P carry, in order.
TimesOf(P) == [k \in 1..Len(P.tokens) |-> P.tokens[k].now]

\* C15: an empty text gives no paragraph; a text with k line breaks gives
\* k + 1 paragraphs, the i-th one holding the tokens of the i-th line (made
\* at the times they carry), and no token when that line is empty.
C15_ParagraphSplitting ==
  pc = "parsed" =>
    IF inputText = <<>> THEN paragraphs = <<>>
    ELSE /\ Len(paragraphs) = Cardinality(LineBreaks(inputText)) + 1
         /\ \A i \in ParagraphIds :
              /\ paragraphs[i].index = i - 1
              /\ paragraphs[i].lineIndex = i - 1
              /\ paragraphs[i].tokens
                   = tokenizeLine(Line(inputText, i), customNames, i - 1,
                                  namesAtStartOnly, TimesOf(paragraphs[i])).tokens
              /\ Line(inputText, i) = <<>> => paragraphs[i].tokens = <<>>

\* C15 witness: a parsed document of three lines, of which one is empty and
\* one holds tokens.
C15_Witness ==
  /\ pc = "parsed"
  /\ Cardinality(LineBreaks(inputText)) = 2
  /\ Len(paragraphs) = 3
  /\ \E i \in ParagraphIds : Line(inputText, i) = <<>> /\ paragraphs[i].tokens = <<>>
  /\ \E i \in ParagraphIds : paragraphs[i].tokens # <<>>

\* ------------------------------------------------------------------------
\* C16
\* ------------------------------------------------------------------------

\* The entries of an array of names, as a set.
Entries(names) == { names[k] : k \in 1..Len(names) }

\* The array in reverse order.
Reversed(names) == [k \in 1..Len(names) |-> names[Len(names) + 1 - k]]

\* Arrays that hold the entries of names in another order or more than once.
Rearranged(names) ==
  { Reversed(names), names \o names, Reversed(names) \o names \o names }

\* C16: in a parsed line, any array with the same set of entries as the
\* dictionary, whatever their order and however often they are repeated,
\* gives the same (type, text) sequence.
C16_DictionaryIsSet ==
  pc = "parsed" =>
    \A i \in ParagraphIds :
      LET P == paragraphs[i]
      IN \A names \in Rearranged(customNames) :
           Entries(names) = Entries(customNames)
             => Kinds(P.tokens)
                  = Kinds(tokenizeLine(P.line, names, P.index, namesAtStartOnly,
                                       Still(P.line)).tokens)

\* ------------------------------------------------------------------------
\* C17
\* ------------------------------------------------------------------------

\* A citation candidate starts at offset q of s: a quotation or a bracketed
\* reference opens there and is closed further on.
CitationAt(s, q) ==
  \E b \in 1..Len(s) :
     \/ Wrapped(s, q + 1, b, "{", "}")
     \/ Wrapped(s, q + 1, b, OrnateLeft, OrnateRight)
     \/ Wrapped(s, q + 1, b, "[", "]")

\* A bold candidate starts at offset q of s: two asterisks, at least one
\* character, none of them an asterisk, and two asterisks.
BoldAt(s, q) ==
  \E e \in (q + 5)..Len(s) :
     /\ s[q + 1] = "*" /\ s[q + 2] = "*"
     /\ s[e - 1] = "*" /\ s[e] = "*"
     /\ \A c \in (q + 3)..(e - 2) : s[c] # "*"

\* An italic candidate starts at offset q of s.
ItalicAt(s, q) ==
  \E b \in 1..Len(s) :
     Wrapped(s, q + 1, b, "*", "*") \/ Wrapped(s, q + 1, b, "_", "_")

\* A name candidate starts at offset q of s.
NameAt(names, s, q) == \E k \in 1..Len(names) : OccursAt(names[k], s, q)

\* The kind a scanner takes at offset q: 1 citation, 2 bold, 3 italic,
\* 4 name, in this order of precedence; 0 when no candidate starts there.
KindAt(names, s, q) ==
  IF CitationAt(s, q) THEN 1
  ELSE IF BoldAt(s, q) THEN 2
  ELSE IF ItalicAt(s, q) THEN 3
  ELSE IF NameAt(names, s, q) THEN 4
  ELSE 0

\* The entries of P.parts that hold a matched span.
Matched(P) ==
  { j \in 1..Len(P.parts) :
      (j - 1) % (P.groups + 1) # 0 /\ P.parts[j].part # UNDEFINED }

\* The offset after the matched span of entry j.
EndOf(P, j) == P.parts[j].start + Len(P.parts[j].part)

\* The offset after the last matched span before entry j; 0 if there is none.
ScanFrom(P, j) ==
  LET before == { m \in Matched(P) : m < j }
  IN IF before = {} THEN 0
     ELSE EndOf(P, CHOOSE m \in before : \A n \in before : n <= m)

\* C17: in a parsed line, every matched span starts at the first offset, from
\* the end of the span before it, at which a citation, bold, italic or name
\* candidate starts, and is of the kind that comes first in the order
\* citation, bold, italic, name among those starting there; no candidate
\* starts after the last span; no span starts inside another one.
C17_LeftToRightScan ==
  pc = "parsed" =>
    \A i \in ParagraphIds :
      LET P == paragraphs[i]
          s == P.line
      IN /\ \A j \in Matched(P) :
              LET q == P.parts[j].start
              IN /\ ScanFrom(P, j) <= q
                 /\ \A r \in ScanFrom(P, j)..(q - 1) : KindAt(customNames, s, r) = 0
                 /\ KindAt(customNames, s, q) = (j - 1) % (P.groups + 1)
                 /\ SubSeq(s, q + 1, EndOf(P, j)) = P.parts[j].part
                 /\ \A m \in Matched(P) :
                      m # j => ~(q <= P.parts[m].start /\ P.parts[m].start < EndOf(P, j))
         /\ \A r \in ScanFrom(P, Len(P.parts) + 1)..(Len(s) - 1) :
              KindAt(customNames, s, r) = 0

\* C17 witness: a parsed line with a citation, bold or italic span at whose
\* start a name candidate starts too, and a name candidate further inside.
C17_Witness ==
  /\ pc = "parsed"
  /\ \E i \in ParagraphIds :
       LET P == paragraphs[i]
       IN \E j \in Matched(P) :
            /\ (j - 1) % (P.groups + 1) \in {1, 2, 3}
            /\ NameAt(customNames, P.line, P.parts[j].start)
            /\ \E r \in (P.parts[j].start + 1)..(EndOf(P, j) - 1) :
                 NameAt(customNames, P.line, r)

\* ------------------------------------------------------------------------
\* C18
\* ------------------------------------------------------------------------

\* C18, as claimed: in a parsed line no two consecutive tokens are both
\* STANDARD, and every piece of the line between two matched spans (or before the first,
\* or after the last) that is not empty makes one token and no more.
C18_MaximalRuns ==
  pc = "parsed" =>
    \A i \in ParagraphIds :
      LET P == paragraphs[i]
      IN /\ \A k \in TokenIds(P) :
              k < Len(P.tokens)
                => ~(P.tokens[k].type = "STANDARD" /\ P.tokens[k + 1].type = "STANDARD")
         /\ \A j \in 1..Len(P.parts) :
              ((j - 1) % (P.groups + 1) = 0 /\ P.parts[j].part # <<>>)
                => Cardinality({ k \in TokenIds(P) : P.tokens[k].index = j - 1 }) = 1

\* Token k of P is a dictionary match typed STANDARD by the positional rule.
DowngradedName(P, k) ==
  /\ namesAtStartOnly
  /\ GroupOf(P, P.tokens[k]) = 4
  /\ P.tokens[k].type = "STANDARD"

\* A zero-length match of an empty dictionary entry lies between tokens k
\* and k + 1 of P.
EmptyMatchAfter(P, k) ==
  \E j \in (P.tokens[k].index + 2)..P.tokens[k + 1].index :
     (j - 1) % (P.groups + 1) = 4 /\ P.parts[j].part = <<>>

\* C18, amended: two consecutive tokens are both STANDARD only when one of
\* them is a dictionary match downgraded by the positional rule, which stays
\* a token of its own, or when a zero-length match of an empty dictionary
\* entry lies between them; every piece of the line between two matched
\* spans that is not empty makes one token and no more.
C18_MaximalButForDowngradedNames ==
  pc = "parsed" =>
    \A i \in ParagraphIds :
      LET P == paragraphs[i]
      IN /\ \A k \in TokenIds(P) :
              (/\ k < Len(P.tokens)
               /\ P.tokens[k].type = "STANDARD"
               /\ P.tokens[k + 1].type = "STANDARD")
                => \/ DowngradedName(P, k)
                   \/ DowngradedName(P, k + 1)
                   \/ EmptyMatchAfter(P, k)
         /\ \A j \in 1..Len(P.parts) :
              ((j - 1) % (P.groups + 1) = 0 /\ P.parts[j].part # <<>>)
                => Cardinality({ k \in TokenIds(P) : P.tokens[k].index = j - 1 }) = 1

\* C18 witness: a parsed line in which unmatched text is followed by a
\* downgraded dictionary match, both STANDARD.
C18_Witness ==
  /\ pc = "parsed"
  /\ \E i \in ParagraphIds :
       LET P == paragraphs[i]
       IN \E k \in TokenIds(P) :
            /\ k < Len(P.tokens)
            /\ P.tokens[k].type = "STANDARD"
            /\ GroupOf(P, P.tokens[k]) = 0
            /\ P.tokens[k + 1].type = "STANDARD"
            /\ DowngradedName(P, k + 1)

\* ------------------------------------------------------------------------
\* C19
\* ------------------------------------------------------------------------

\* Every entry of the dictionary holds a character that is not whitespace.
NoBlankEntry(names) ==
  \A n \in 1..Len(names) : \E c \in 1..Len(names[n]) : names[n][c] \notin WhiteSpace

\* C19: under the positional rule and a dictionary without blank entries, a
\* parsed line has at most one NAME token, and every token before it is a
\* STANDARD token of whitespace only.
C19_OneNamePerLine ==
  (pc = "parsed" /\ namesAtStartOnly /\ NoBlankEntry(customNames)) =>
    \A i \in ParagraphIds :
      LET P == paragraphs[i]
      IN \A k \in TokenIds(P) :
           P.tokens[k].type = "NAME"
             => /\ \A m \in 1..(k - 1) :
                     /\ P.tokens[m].type = "STANDARD"
                     /\ \A c \in 1..Len(P.tokens[m].text) :
                          P.tokens[m].text[c] \in WhiteSpace
                /\ \A m \in (k + 1)..Len(P.tokens) : P.tokens[m].type # "NAME"

\* C19 witness: under the positional rule, a parsed line with whitespace, a
\* NAME token, and a later dictionary match that is not typed NAME.
C19_Witness ==
  /\ pc = "parsed"
  /\ namesAtStartOnly
  /\ NoBlankEntry(customNames)
  /\ \E i \in ParagraphIds :
       LET P == paragraphs[i]
       IN \E k \in TokenIds(P) : \E m \in TokenIds(P) :
            /\ 1 < k /\ k < m
            /\ P.tokens[k].type = "NAME"
            /\ GroupOf(P, P.tokens[m]) = 4
            /\ ArrayIncludes(customNames, P.tokens[m].text)
            /\ P.tokens[m].type = "STANDARD"

\* ------------------------------------------------------------------------
\* C20
\* ------------------------------------------------------------------------

\* The tokens of paragraph P under the positional flag set to flag.
TokensUnder(P, flag) ==
  IF flag = namesAtStartOnly THEN P.tokens
  ELSE tokenizeLine(P.line, customNames, P.index, flag, TimesOf(P)).tokens

\* Under the flag a token is where it is without the flag a NAME: a
\* dictionary entry typed STANDARD, or a bold span holding a name typed BOLD.
Downgraded(strict, free) ==
  /\ free.type = "NAME"
  /\ \/ strict.type = "STANDARD" /\ ArrayIncludes(customNames, strict.text)
     \/ strict.type = "BOLD" /\ HoldsName(customNames, strict.text)

\* C20: a parsed line has, with the positional flag true and with it false,
\* the same number of tokens with the same texts, and the same types except
\* where a NAME of the result without the flag is STANDARD (a bare name) or
\* BOLD (a bold span holding a name) with it; a NAME with the flag is a NAME
\* without it.
C20_FlagChangesTypesOnly ==
  pc = "parsed" =>
    \A i \in ParagraphIds :
      LET strict == TokensUnder(paragraphs[i], TRUE)
          free == TokensUnder(paragraphs[i], FALSE)
      IN /\ Len(strict) = Len(free)
         /\ \A k \in 1..Len(strict) :
              /\ strict[k].text = free[k].text
              /\ strict[k].type = free[k].type \/ Downgraded(strict[k], free[k])
              /\ strict[k].type = "NAME" => free[k].type = "NAME"

\* C20 witness: a parsed line in which the flag turns a bare name into a
\* STANDARD token and a bold span holding a name into a BOLD token.
C20_Witness ==
  /\ pc = "parsed"
  /\ \E i \in ParagraphIds :
       LET strict == TokensUnder(paragraphs[i], TRUE)
           free == TokensUnder(paragraphs[i], FALSE)
       IN /\ Len(strict) = Len(free)
          /\ \E k \in 1..Len(strict) :
               free[k].type = "NAME" /\ strict[k].type = "STANDARD"
          /\ \E k \in 1..Len(strict) :
               free[k].type = "NAME" /\ strict[k].type = "BOLD"

====
